---- MODULE Spec2Model ----
(***************************************************************************)
(* Model of symd (src/symd/symd.py): the YANG module dependency graph G,   *)
(* its construction by init() and the queries over it.                     *)
(*                                                                         *)
(* Strings are sequences of characters, so that Python's string            *)
(* comparison (rev > en_rev), truthiness (if rev:) and substring test      *)
(* (partial in node_name) are computed and not assumed.  Module names are  *)
(* sequences of letters, revisions are sequences of digit characters.      *)
(*                                                                         *)
(* A networkx 1.x DiGraph (the code uses nodes_iter and G.node) is the     *)
(* record                                                                  *)
(*   [order |-> keys of G.node in iteration (insertion) order,             *)
(*    node  |-> G.node, name -> attribute dictionary,                      *)
(*    adj   |-> G.succ, name -> successors in insertion order]             *)
(* add_node(n, attr_dict=attr) makes attr the dictionary of a new node, so *)
(* a node's dictionary has the keys type, tag, imports and revision, and   *)
(* the key attr_dict once "G.node[name]['attr_dict'] = attr" has run.      *)
(*                                                                         *)
(* Every file is readable and declares a module (an unreadable file only   *)
(* prints the IOError); yang_dict has its default {}.                      *)
(*                                                                         *)
(* print_dependency_tree is followed step by step, one step per iteration  *)
(* of its loop and of the loop of print_dependents.  The older program     *)
(* src/symd.py adds print_dependency_tree(single_node) and the __main__    *)
(* that catches the NetworkXError of get_subgraph_for_node.                *)
(***************************************************************************)
EXTENDS Integers, Sequences, FiniteSets, TLC

\* ---------------------------------------------------------------- bounds
MaxFiles == 2
MaxImports == 2
MaxRevisions == 1
MaxIgnore == 1

\* ------------------------------------------------------------- constants
\* Python's None where a string is expected; no string (a sequence of
\* single characters) equals it
None == <<"None">>
\* a dictionary key that is not set
Absent == [absent |-> TRUE]

TYPE_MOD == "mod"
TYPE_SUB == "sub"
TYPE_MODULE == "module"

RFC_TAG == "rfc"
DRAFT_TAG == "draft"
UNKNOWN_TAG == "unknown"

\* module names that files declare and import
Names == {<<"a">>, <<"b">>, <<"a", "b">>}

\* revision strings of the files, "2" and "12": the longer one is the smaller
RevStrings == {<<"2">>, <<"1", "2">>}

SeqsUpTo(S, n) == UNION {[1..k -> S] : k \in 0..n}

\* what parse_yang_module returns for one file
Scans ==
    [name : Names, mod_type : {TYPE_MOD, TYPE_SUB},
     imports : SeqsUpTo(Names, MaxImports),
     revisions : SeqsUpTo(RevStrings, MaxRevisions)]

\* ------------------------------------------------------- Python helpers
\* ord() of the characters of a revision date
Ord(c) ==
    CASE c = "-" -> 45 [] c = "0" -> 48 [] c = "1" -> 49 [] c = "2" -> 50
      [] c = "3" -> 51 [] c = "4" -> 52 [] c = "5" -> 53 [] c = "6" -> 54
      [] c = "7" -> 55 [] c = "8" -> 56 [] c = "9" -> 57

\* x > y on strings: lexicographic by character code, a proper prefix is
\* smaller
RECURSIVE StrGT(_, _)
StrGT(x, y) ==
    IF x = <<>> THEN FALSE
    ELSE IF y = <<>> THEN TRUE
    ELSE IF Head(x) # Head(y) THEN Ord(Head(x)) > Ord(Head(y))
    ELSE StrGT(Tail(x), Tail(y))

\* max() of a non-empty list of strings: the first greatest element
RECURSIVE MaxStr(_)
MaxStr(l) ==
    IF Len(l) = 1 THEN l[1]
    ELSE LET m == MaxStr(Tail(l)) IN IF StrGT(m, l[1]) THEN m ELSE l[1]

\* truth value of an optional string: None and '' are false
Truthy(s) == s # None /\ s # <<>>

SeqToSet(s) == {s[i] : i \in 1..Len(s)}

\* ------------------------------------------------------ networkx DiGraph
EmptyGraph == [order |-> <<>>, node |-> <<>>, adj |-> <<>>]

HasNode(g, n) == n \in DOMAIN g.node

\* the four attributes of a dictionary, without its other keys
Attrs(d) ==
    [type |-> d.type, tag |-> d.tag, imports |-> d.imports, revision |-> d.revision]

\* DiGraph.add_node(n, attr_dict=attr): a new node gets attr as its
\* dictionary, an existing one has its dictionary updated with attr
AddNode(g, n, attr) ==
    IF HasNode(g, n)
    THEN [g EXCEPT !.node[n] = [type |-> attr.type, tag |-> attr.tag,
                                 imports |-> attr.imports,
                                 revision |-> attr.revision,
                                 attr_dict |-> @.attr_dict]]
    ELSE [order |-> Append(g.order, n),
          node |-> [m \in DOMAIN g.node \cup {n} |->
                      IF m = n
                      THEN [type |-> attr.type, tag |-> attr.tag,
                            imports |-> attr.imports,
                            revision |-> attr.revision,
                            attr_dict |-> Absent]
                      ELSE g.node[m]],
          adj |-> [m \in DOMAIN g.adj \cup {n} |->
                      IF m = n THEN <<>> ELSE g.adj[m]]]

\* mutant of AddEdge: the edge is stored from the imported module to the importer
AddEdgeReversed(g, u, v) ==
    IF u \in SeqToSet(g.adj[v]) THEN g
    ELSE [g EXCEPT !.adj[v] = Append(@, u)]

\* DiGraph.add_edge(u, v) between two nodes of the graph
AddEdge(g, u, v) ==
    IF v \in SeqToSet(g.adj[u]) THEN g
    ELSE [g EXCEPT !.adj[u] = Append(@, v)]

\* G.node[name]['attr_dict'] = attr
SetAttrDictKey(g, n, attr) == [g EXCEPT !.node[n].attr_dict = attr]

\* ------------------------------------------------------ get_yang_modules
\* rev = max(revisions) if there are any, else None
ScanRev(s) == IF Len(s.revisions) > 0 THEN MaxStr(s.revisions) ELSE None

ScanAttr(s, tag) ==
    [type |-> s.mod_type, tag |-> tag, imports |-> s.imports, revision |-> ScanRev(s)]

\* the test that guards both "Replacing revision" branches
ReplaceTest(en_rev, rev) ==
    IF Truthy(en_rev)
    THEN Truthy(rev) /\ StrGT(rev, en_rev)
    ELSE Truthy(rev)

\* mutant of IngestFile: every file updates the node, whatever its revision
IngestFileAlwaysUpdate(g, s, tag) == AddNode(g, s.name, ScanAttr(s, tag))

\* body of the loop over yfiles, for one readable file
IngestFile(g, s, tag) ==
    LET attr == ScanAttr(s, tag) IN
    IF HasNode(g, s.name)
    THEN IF ReplaceTest(g.node[s.name].revision, attr.revision)
         THEN SetAttrDictKey(g, s.name, attr)
         ELSE g
    ELSE AddNode(g, s.name, attr)

\* --------------------------------------------------- get_unknown_modules
\* mutant of UnknownOfImports: every import is recorded, also those that are nodes
UnknownOfImportsAll(g, imps) == imps

\* the imports of the nodes, in iteration order, that are not nodes
RECURSIVE UnknownOfImports(_, _)
UnknownOfImports(g, imps) ==
    IF imps = <<>> THEN <<>>
    ELSE (IF HasNode(g, Head(imps)) THEN <<>> ELSE <<Head(imps)>>)
         \o UnknownOfImports(g, Tail(imps))

RECURSIVE UnknownNodes(_, _)
UnknownNodes(g, names) ==
    IF names = <<>> THEN <<>>
    ELSE UnknownOfImports(g, g.node[Head(names)].imports)
         \o UnknownNodes(g, Tail(names))

UnknownAttr ==
    [type |-> TYPE_MODULE, tag |-> UNKNOWN_TAG, imports |-> <<>>, revision |-> None]

\* mutant of AddUnknown: only the first recorded name gets a node
AddUnknownFirst(g, uns) ==
    IF uns = <<>> THEN g ELSE AddNode(g, Head(uns), UnknownAttr)

RECURSIVE AddUnknown(_, _)
AddUnknown(g, uns) ==
    IF uns = <<>> THEN g
    ELSE AddUnknown(AddNode(g, Head(uns), UnknownAttr), Tail(uns))

\* mutant of GetUnknownModules: no placeholder is added
GetUnknownModulesSkipped(g) == g

GetUnknownModules(g) == AddUnknown(g, UnknownNodes(g, g.order))

\* ----------------------------------------------- get_module_dependencies
\* [g |-> graph, errs |-> "imports unknown module" errors reported]
RECURSIVE DepsOfImports(_, _, _)
DepsOfImports(st, n, imps) ==
    IF imps = <<>> THEN st
    ELSE DepsOfImports(
            IF HasNode(st.g, Head(imps))
            THEN [st EXCEPT !.g = AddEdge(st.g, n, Head(imps))]
            ELSE [st EXCEPT !.errs = Append(@, <<n, Head(imps)>>)],
            n, Tail(imps))

RECURSIVE DepsOfNodes(_, _)
DepsOfNodes(st, names) ==
    IF names = <<>> THEN st
    ELSE DepsOfNodes(DepsOfImports(st, Head(names), st.g.node[Head(names)].imports),
                     Tail(names))

GetModuleDependencies(g) == DepsOfNodes([g |-> g, errs |-> <<>>], g.order)

\* ------------------------------------------------ nx.descendants/ancestors
Successors(g, n) == SeqToSet(g.adj[n])
Predecessors(g, n) == {m \in DOMAIN g.adj : n \in SeqToSet(g.adj[m])}

\* breadth-first search from the frontier along successors (forward) or
\* predecessors: the keys of nx.shortest_path_length(G, source=...)
RECURSIVE BreadthFirst(_, _, _, _)
BreadthFirst(g, forward, seen, frontier) ==
    IF frontier = {} THEN seen
    ELSE LET next == UNION {IF forward THEN Successors(g, n) ELSE Predecessors(g, n)
                            : n \in frontier}
         IN BreadthFirst(g, forward, seen \cup next, next \ seen)

\* mutant of Descendants: the direct successors only
DescendantsDirect(g, source) == Successors(g, source) \ {source}

\* nx.descendants(G, source): the nodes the search reaches, without source
Descendants(g, source) == BreadthFirst(g, TRUE, {source}, {source}) \ {source}

\* nx.ancestors(G, source)
Ancestors(g, source) == BreadthFirst(g, FALSE, {source}, {source}) \ {source}

\* ---------------------------- print_impacting_modules/print_impacted_modules
\* the nodes the loop does not skip: all of them, or the single node asked for
Visited(g, single_node) ==
    {n \in DOMAIN g.node : ~(single_node # None /\ n # single_node)}

\* json_out['impacting_modules']: node -> the descendants listed for it
ImpactingModules(g, single_node) ==
    [n \in Visited(g, single_node) |-> Descendants(g, n)]

\* json_out['impacted_modules']: a node is listed when it has ancestors
ImpactedModules(g, single_node) ==
    [n \in {m \in Visited(g, single_node) : Cardinality(Ancestors(g, m)) > 0}
        |-> Ancestors(g, n)]

\* ------------------------------------------------ prune_standalone_nodes
RECURSIVE Without(_, _)
Without(s, x) ==
    IF s = <<>> THEN <<>>
    ELSE (IF Head(s) = x THEN <<>> ELSE <<Head(s)>>) \o Without(Tail(s), x)

\* DiGraph.remove_node(n): the node and the edges at it
RemoveNode(g, n) ==
    [order |-> Without(g.order, n),
     node |-> [m \in DOMAIN g.node \ {n} |-> g.node[m]],
     adj |-> [m \in DOMAIN g.adj \ {n} |-> Without(g.adj[m], n)]]

\* mutant of PruneNodes: a node is removed when one of the two sets is empty
RECURSIVE PruneNodesEither(_, _, _)
PruneNodesEither(g, ng, names) ==
    IF names = <<>> THEN ng
    ELSE PruneNodesEither(g,
            IF Cardinality(Ancestors(g, Head(names))) = 0
               \/ Cardinality(Descendants(g, Head(names))) = 0
            THEN RemoveNode(ng, Head(names))
            ELSE ng,
            Tail(names))

RECURSIVE PruneNodes(_, _, _)
PruneNodes(g, ng, names) ==
    IF names = <<>> THEN ng
    ELSE PruneNodes(g,
            IF Cardinality(Ancestors(g, Head(names))) = 0
               /\ Cardinality(Descendants(g, Head(names))) = 0
            THEN RemoveNode(ng, Head(names))
            ELSE ng,
            Tail(names))

\* ng = nx.DiGraph(G), then every node of G without ancestors and
\* descendants is removed from ng
PruneStandaloneNodes(g) == PruneNodes(g, g, g.order)

\* ----------------------------------------- return_dependency_tree_as_json
\* mutant of PartialIn: node_name starts with partial
PartialInPrefix(partial, name) ==
    Len(partial) <= Len(name) /\ SubSeq(name, 1, Len(partial)) = partial

\* partial in node_name: partial occurs in node_name as a substring
PartialIn(partial, name) ==
    \E i \in 0..(Len(name) - Len(partial)) : SubSeq(name, i + 1, i + Len(partial)) = partial

\* the loop over ignore_partial for a node: empty partials are skipped
RECURSIVE PartialFoundNode(_, _)
PartialFoundNode(ignore_partial, node_name) ==
    IF ignore_partial = <<>> THEN FALSE
    ELSE LET partial == Head(ignore_partial)
             rest == PartialFoundNode(Tail(ignore_partial), node_name)
         IN IF Len(partial) = 0 THEN rest
            ELSE (Len(node_name) > 0 /\ PartialIn(partial, node_name)) \/ rest

\* the loop over ignore_partial for an edge (z, a)
RECURSIVE PartialFoundEdge(_, _, _)
PartialFoundEdge(ignore_partial, z, a) ==
    IF ignore_partial = <<>> THEN FALSE
    ELSE LET partial == Head(ignore_partial)
             rest == PartialFoundEdge(Tail(ignore_partial), z, a)
         IN IF Len(partial) = 0 THEN rest
            ELSE PartialIn(partial, a) \/ PartialIn(partial, z) \/ rest

\* the two tests that make the node loop continue
NodeSkipped(node_name, ignore_exact, ignore_partial) ==
    \/ Len(ignore_exact) > 0 /\ node_name \in SeqToSet(ignore_exact)
    \/ Len(ignore_partial) > 0 /\ PartialFoundNode(ignore_partial, node_name)

\* the two tests that make the edge loop continue
EdgeSkipped(z, a, ignore_exact, ignore_partial) ==
    \/ a \in SeqToSet(ignore_exact)
    \/ z \in SeqToSet(ignore_exact)
    \/ Len(ignore_partial) > 0 /\ PartialFoundEdge(ignore_partial, z, a)

\* idx_arr: the names of the nodes that are not skipped, in iteration order
RECURSIVE IdxArr(_, _, _)
IdxArr(names, ignore_exact, ignore_partial) ==
    IF names = <<>> THEN <<>>
    ELSE (IF NodeSkipped(Head(names), ignore_exact, ignore_partial)
          THEN <<>> ELSE <<Head(names)>>)
         \o IdxArr(Tail(names), ignore_exact, ignore_partial)

\* graph.edges_iter(): for every node in order, its successors in order
RECURSIVE EdgesIter(_, _)
EdgesIter(g, names) ==
    IF names = <<>> THEN <<>>
    ELSE [i \in 1..Len(g.adj[Head(names)]) |-> <<Head(names), g.adj[Head(names)][i]>>]
         \o EdgesIter(g, Tail(names))

\* mutant of ListIndex: the position counted from 1
ListIndexFromOne(l, x) ==
    IF x \in SeqToSet(l) THEN CHOOSE i \in 1..Len(l) : l[i] = x /\ \A j \in 1..(i - 1) : l[j] # x
    ELSE -1

\* list.index(x): the first position of x, from 0; -1 stands for ValueError
ListIndex(l, x) ==
    IF x \in SeqToSet(l)
    THEN (CHOOSE i \in 1..Len(l) : l[i] = x /\ \A j \in 1..(i - 1) : l[j] # x) - 1
    ELSE -1

\* mutant of Links: 'source' is the index of the importer z
RECURSIVE LinksFromImporter(_, _, _, _)
LinksFromImporter(edges, idx_arr, ignore_exact, ignore_partial) ==
    IF edges = <<>> THEN [links |-> <<>>, error |-> "none"]
    ELSE LET z == Head(edges)[1]
             a == Head(edges)[2]
             a_idx == ListIndex(idx_arr, a)
             z_idx == ListIndex(idx_arr, z)
             rest == LinksFromImporter(Tail(edges), idx_arr, ignore_exact, ignore_partial)
         IN IF EdgeSkipped(z, a, ignore_exact, ignore_partial) THEN rest
            ELSE IF a_idx = -1 \/ z_idx = -1 THEN [links |-> <<>>, error |-> "ValueError"]
            ELSE IF rest.error # "none" THEN rest
            ELSE [links |-> <<[source |-> z_idx, target |-> a_idx, value |-> 1]>> \o rest.links,
                  error |-> rest.error]

\* the loop over the edges: [links, error]
RECURSIVE Links(_, _, _, _)
Links(edges, idx_arr, ignore_exact, ignore_partial) ==
    IF edges = <<>> THEN [links |-> <<>>, error |-> "none"]
    ELSE LET z == Head(edges)[1]
             a == Head(edges)[2]
             a_idx == ListIndex(idx_arr, a)
             z_idx == ListIndex(idx_arr, z)
             rest == Links(Tail(edges), idx_arr, ignore_exact, ignore_partial)
         IN IF EdgeSkipped(z, a, ignore_exact, ignore_partial) THEN rest
            ELSE IF a_idx = -1 \/ z_idx = -1 THEN [links |-> <<>>, error |-> "ValueError"]
            ELSE IF rest.error # "none" THEN rest
            ELSE [links |-> <<[source |-> a_idx, target |-> z_idx, value |-> 1]>> \o rest.links,
                  error |-> rest.error]

\* graph=None, the default argument
NoGraph == [none |-> TRUE]

\* "if not graph: graph = G": None and a graph without nodes are false
GraphOrG(graph, g) ==
    IF graph = NoGraph THEN g
    ELSE IF Len(graph.order) = 0 THEN g
    ELSE graph

\* return_dependency_tree_as_json(graph, ignore_exact, ignore_partial) with
\* the default yang_dict: the output, or the exception raised
ReturnDependencyTreeAsJson(graph, g, ignore_exact, ignore_partial) ==
    LET used == GraphOrG(graph, g)
        idx_arr == IdxArr(used.order, ignore_exact, ignore_partial)
        l == Links(EdgesIter(used, used.order), idx_arr, ignore_exact, ignore_partial)
    IN [nodes |-> [i \in 1..Len(idx_arr) |-> [name |-> idx_arr[i]]],
        links |-> l.links,
        error |-> l.error]

\* -------------------------------------------------- get_subgraph_for_node
\* the orders a set can be iterated in
Orders(S) ==
    {p \in [1..Cardinality(S) -> S] : \A i, j \in 1..Cardinality(S) : i # j => p[i] # p[j]}

\* the nodes get_subgraph_for_node hands to nx.subgraph: a set, so the nodes
\* of the subgraph come in any order; nothing for a name nx.ancestors rejects
SubgraphOrders(g, node_name) ==
    IF HasNode(g, node_name) THEN Orders(Ancestors(g, node_name) \cup {node_name})
    ELSE {<<>>}

\* nx.subgraph(G, nbunch): the nodes with the dictionaries they have in G and
\* the edges of G between them
Subgraph(g, order) ==
    [order |-> order,
     node |-> [n \in SeqToSet(order) |-> g.node[n]],
     adj |-> [n \in SeqToSet(order) |->
                SelectSeq(g.adj[n], LAMBDA v : v \in SeqToSet(order))]]

\* get_subgraph_for_node(node_name): nx.ancestors raises NetworkXError for a
\* name that is not a node, and nothing here catches it
GetSubgraphForNode(g, node_name, order) ==
    IF ~HasNode(g, node_name) THEN [error |-> "NetworkXError", graph |-> NoGraph]
    ELSE [error |-> "none", graph |-> Subgraph(g, order)]

\* one iteration of "for node in args.sub_graphs" of src/symd.py: the graph
\* is drawn and '    Done.' printed, or the NetworkXError is caught and its
\* message printed; no exception leaves the iteration
MainSubGraph(g, node, order) ==
    IF GetSubgraphForNode(g, node, order).error = "NetworkXError"
    THEN [printed |-> "    The node %s is not in the graph.", raised |-> "none"]
    ELSE [printed |-> "    Done.", raised |-> "none"]

\* ------------------------------------------------------ nx.dfs_successors
\* nx.dfs_edges(G, source): the loop over the stack of (parent, children
\* still to look at); an edge is yielded when its child is first visited
RECURSIVE DfsEdges(_, _, _)
DfsEdges(g, visited, stack) ==
    IF stack = <<>> THEN <<>>
    ELSE LET top == stack[Len(stack)]
             advanced == [stack EXCEPT ![Len(stack)].children = Tail(@)]
         IN IF top.children = <<>>
            THEN DfsEdges(g, visited, SubSeq(stack, 1, Len(stack) - 1))
            ELSE LET child == Head(top.children)
                 IN IF child \notin visited
                    THEN << <<top.parent, child>> >>
                         \o DfsEdges(g, visited \cup {child},
                                     Append(advanced, [parent |-> child,
                                                       children |-> g.adj[child]]))
                    ELSE DfsEdges(g, visited, advanced)

\* d[s].append(t) for the edges (s, t) in turn: the list d[s]
RECURSIVE ChildrenOf(_, _)
ChildrenOf(edges, s) ==
    IF edges = <<>> THEN <<>>
    ELSE (IF Head(edges)[1] = s THEN <<Head(edges)[2]>> ELSE <<>>)
         \o ChildrenOf(Tail(edges), s)

\* mutant of DfsSuccessors: the successors of every node, visited or not
DfsSuccessorsAdjacency(g, source) == [s \in DOMAIN g.adj |-> g.adj[s]]

\* mutant of DfsSuccessors: the tree stops below the source
DfsSuccessorsOfSource(g, source) ==
    [s \in {n \in {source} : Without(g.adj[n], n) # <<>>} |-> Without(g.adj[s], s)]

\* nx.dfs_successors(G, source): node -> the nodes first visited from it, in
\* the order of the visits; a node from which none is visited has no key
DfsSuccessors(g, source) ==
    LET edges == DfsEdges(g, {source}, <<[parent |-> source, children |-> g.adj[source]]>>)
    IN [s \in {edges[i][1] : i \in 1..Len(edges)} |-> ChildrenOf(edges, s)]

\* ------------------------------------ print_dependency_tree/print_dependents
\* the marker augment_format_string appends for the node's tag
Marker(g, node_name) ==
    IF g.node[node_name].tag = RFC_TAG THEN " *"
    ELSE IF g.node[node_name].tag = UNKNOWN_TAG THEN " (?)"
    ELSE ""

\* a printed line: the preamble, the text after it, and for the line of a
\* module its name and marker.  Every string appended to preamble_list has
\* six characters, so a preamble is kept as the sequence of these pieces.
Line(preamble, text, name, marker) ==
    [preamble |-> preamble, text |-> text, name |-> name, marker |-> marker]

\* print(preamble + '  |')
BarLine(preamble) == Line(preamble, "  |", None, "")

\* mutant of Segment: the bar for every child
SegmentBar(i, n) == "  |   "

\* what print_dependents appends to preamble_list before it descends into
\* imports[i], i counted from 0, n = len(imports)
Segment(i, n) == IF i < n - 1 THEN "  |   " ELSE "      "

\* the nodes the loop of print_dependency_tree() of symd/symd.py renders
TreeRoots(g) == SelectSeq(g.order, LAMBDA n : g.node[n].tag # UNKNOWN_TAG)

\* mutant of TreeRootsSingle: single_node is not looked at
TreeRootsSingleAll(g, single_node) == g.order

\* the nodes the loop of print_dependency_tree(single_node) of src/symd.py
\* renders: "if single_node and (node != single_node): continue"
TreeRootsSingle(g, single_node) ==
    SelectSeq(g.order, LAMBDA n : ~(Truthy(single_node) /\ n # single_node))

\* the frame of a call print_dependents(graph, preamble_list, imports) about
\* to run the iteration i of its loop
Frame(imports, preamble) == [imports |-> imports, i |-> 0, preamble |-> preamble]

\* mutant of PruneEffect: the nodes are removed from G itself
PruneEffectInPlace(g) == [G |-> PruneStandaloneNodes(g), ng |-> PruneStandaloneNodes(g)]

\* prune_standalone_nodes(): what it leaves in G, and the copy ng it returns
PruneEffect(g) == [G |-> g, ng |-> PruneStandaloneNodes(g)]

\* ------------------------------------------------------------------- init
RECURSIVE IngestFiles(_, _)
IngestFiles(g, files) ==
    IF files = <<>> THEN g
    ELSE IngestFiles(IngestFile(g, Head(files).scan, Head(files).tag), Tail(files))

\* G and the errors reported when init() has returned, the batches having
\* held these files
InitResult(files) == GetModuleDependencies(GetUnknownModules(IngestFiles(EmptyGraph, files)))

\* ------------------------------------------------------------------ state
VARIABLES
    pc,         \* where init() is: "rfc", "draft", "unknown", "deps", "again", "done";
                \* "tree" while print_dependency_tree runs
    G,          \* the global graph
    yfiles,     \* the files get_yang_modules has ingested: [scan, tag] records
    dep_errors, \* errors reported by get_module_dependencies
    call,       \* the query called last and its arguments
    result,     \* what that call returned, listed or has printed so far
    roots,      \* print_dependency_tree: the nodes its loop has still to take
    dg,         \* print_dependency_tree: dg, the graph print_dependents reads
    frames,     \* the calls of print_dependents in progress, the innermost last
    preamble_list   \* plist, the list the calls of print_dependents share

vars == <<pc, G, yfiles, dep_errors, call, result, roots, dg, frames, preamble_list>>

\* the variables of a running print_dependency_tree
tvars == <<roots, dg, frames, preamble_list>>

EmptyDict == [n \in {} |-> <<>>]

NoCall == [op |-> "none"]

Init ==
    /\ pc = "rfc"
    /\ G = EmptyGraph
    /\ yfiles = <<>>
    /\ dep_errors = <<>>
    /\ call = NoCall
    /\ result = <<>>
    /\ roots = <<>>
    /\ dg = EmptyDict
    /\ frames = <<>>
    /\ preamble_list = <<>>

BatchTag == IF pc = "rfc" THEN RFC_TAG ELSE DRAFT_TAG

\* one iteration of the loop of get_yang_modules
ScanFile ==
    /\ pc \in {"rfc", "draft"}
    /\ Len(yfiles) < MaxFiles
    /\ \E s \in Scans :
         /\ G' = IngestFile(G, s, BatchTag)
         /\ yfiles' = Append(yfiles, [scan |-> s, tag |-> BatchTag])
    /\ UNCHANGED <<pc, dep_errors, call, result>>
    /\ UNCHANGED tvars

\* get_yang_modules(rfc_yang_files, RFC_TAG) returns
EndRfcBatch ==
    /\ pc = "rfc"
    /\ pc' = "draft"
    /\ UNCHANGED <<G, yfiles, dep_errors, call, result>>
    /\ UNCHANGED tvars

\* get_yang_modules(draft_yang_files, DRAFT_TAG) returns
EndDraftBatch ==
    /\ pc = "draft"
    /\ pc' = "unknown"
    /\ UNCHANGED <<G, yfiles, dep_errors, call, result>>
    /\ UNCHANGED tvars

\* init: get_unknown_modules(verbose)
CallGetUnknownModules ==
    /\ pc = "unknown"
    /\ G' = GetUnknownModules(G)
    /\ pc' = "deps"
    /\ UNCHANGED <<yfiles, dep_errors, call, result>>
    /\ UNCHANGED tvars

\* a second call of get_unknown_modules directly after the first
CallGetUnknownModulesAgain ==
    /\ pc = "deps"
    /\ G' = GetUnknownModules(G)
    /\ pc' = "again"
    /\ UNCHANGED <<yfiles, dep_errors, call, result>>
    /\ UNCHANGED tvars

\* init: get_module_dependencies()
CallGetModuleDependencies ==
    /\ pc \in {"deps", "again"}
    /\ LET r == GetModuleDependencies(G) IN
         /\ G' = r.g
         /\ dep_errors' = r.errs
    /\ pc' = "done"
    /\ UNCHANGED <<yfiles, call, result>>
    /\ UNCHANGED tvars

Next ==
    \/ ScanFile
    \/ EndRfcBatch
    \/ EndDraftBatch
    \/ CallGetUnknownModules
    \/ CallGetUnknownModulesAgain
    \/ CallGetModuleDependencies

Spec == Init /\ [][Next]_vars

\* ---------------------------------------------------- queries after init
\* the files init() was given, for the queries: modules without revision,
\* each scanned once, in the RFC batch
CorpusScans ==
    [name : Names, mod_type : {TYPE_MOD},
     imports : SeqsUpTo(Names, MaxImports),
     revisions : {<<>>}]

Corpora ==
    {c \in SeqsUpTo([scan : CorpusScans, tag : {RFC_TAG}], MaxFiles) :
        \A i, j \in 1..Len(c) : i # j => c[i].scan.name # c[j].scan.name}

\* init() has returned
InitDone ==
    /\ pc = "done"
    /\ yfiles \in Corpora
    /\ G = InitResult(yfiles).g
    /\ dep_errors = InitResult(yfiles).errs
    /\ call = NoCall
    /\ result = <<>>
    /\ roots = <<>>
    /\ dg = EmptyDict
    /\ frames = <<>>
    /\ preamble_list = <<>>

SingleNodes == {None} \cup Names

\* print_impacting_modules(single_node, json_out={})
CallPrintImpactingModules ==
    /\ pc = "done"
    /\ \E single_node \in SingleNodes :
         /\ call' = [op |-> "impacting", single_node |-> single_node]
         /\ result' = [impacting_modules |-> ImpactingModules(G, single_node)]
    /\ UNCHANGED <<pc, G, yfiles, dep_errors>>
    /\ UNCHANGED tvars

\* print_impacted_modules(single_node, json_out={})
CallPrintImpactedModules ==
    /\ pc = "done"
    /\ \E single_node \in SingleNodes :
         /\ call' = [op |-> "impacted", single_node |-> single_node]
         /\ result' = [impacted_modules |-> ImpactedModules(G, single_node)]
    /\ UNCHANGED <<pc, G, yfiles, dep_errors>>
    /\ UNCHANGED tvars

\* the substrings a caller excludes by: '', "a" and "b"
Partials == {<<>>, <<"a">>, <<"b">>}

\* the graph arguments: None, or the graph prune_standalone_nodes() returned
GraphArgs == {NoGraph, PruneStandaloneNodes(G)}

\* return_dependency_tree_as_json(graph, ignore_exact, ignore_partial)
CallReturnDependencyTreeAsJson ==
    /\ pc = "done"
    /\ \E graph \in GraphArgs, ignore_exact \in SeqsUpTo(Names, MaxIgnore),
          ignore_partial \in SeqsUpTo(Partials, MaxIgnore) :
         /\ call' = [op |-> "json", graph |-> graph, ignore_exact |-> ignore_exact,
                     ignore_partial |-> ignore_partial]
         /\ result' = ReturnDependencyTreeAsJson(graph, G, ignore_exact, ignore_partial)
    /\ UNCHANGED <<pc, G, yfiles, dep_errors>>
    /\ UNCHANGED tvars

\* get_subgraph_for_node(node_name)
CallGetSubgraphForNode ==
    /\ pc = "done"
    /\ \E node_name \in Names :
         \E order \in SubgraphOrders(G, node_name) :
            /\ call' = [op |-> "subgraph", node_name |-> node_name]
            /\ result' = GetSubgraphForNode(G, node_name, order)
    /\ UNCHANGED <<pc, G, yfiles, dep_errors>>
    /\ UNCHANGED tvars

\* __main__ of src/symd.py plots the graph of one of args.sub_graphs
CallMainSubGraph ==
    /\ pc = "done"
    /\ \E node \in Names :
         \E order \in SubgraphOrders(G, node) :
            /\ call' = [op |-> "main_sub_graph", node |-> node]
            /\ result' = MainSubGraph(G, node, order)
    /\ UNCHANGED <<pc, G, yfiles, dep_errors>>
    /\ UNCHANGED tvars

\* prune_standalone_nodes()
CallPruneStandaloneNodes ==
    /\ pc = "done"
    /\ call' = [op |-> "prune"]
    /\ G' = PruneEffect(G).G
    /\ result' = [graph |-> PruneEffect(G).ng]
    /\ UNCHANGED <<pc, yfiles, dep_errors>>
    /\ UNCHANGED tvars

\* print_dependency_tree() of symd/symd.py is called: the title is printed
CallPrintDependencyTree ==
    /\ pc = "done"
    /\ pc' = "tree"
    /\ call' = [op |-> "tree", single_node |-> None]
    /\ result' = [lines |-> <<Line(<<>>, "\n=== Module Dependency Trees ===", None, "")>>]
    /\ roots' = TreeRoots(G)
    /\ UNCHANGED <<G, yfiles, dep_errors, dg, frames, preamble_list>>

\* print_dependency_tree(single_node) of src/symd.py is called
CallPrintDependencyTreeSingle ==
    /\ pc = "done"
    /\ pc' = "tree"
    /\ \E single_node \in SingleNodes :
         /\ call' = [op |-> "tree_single", single_node |-> single_node]
         /\ roots' = TreeRootsSingle(G, single_node)
    /\ result' = [lines |-> <<Line(<<>>, "\n===Imported Modules===", None, "")>>]
    /\ UNCHANGED <<G, yfiles, dep_errors, dg, frames, preamble_list>>

\* the marker of a printed name: src/symd.py prints the name alone
MarkerOf(node_name) == IF call.op = "tree" THEN Marker(G, node_name) ELSE ""

\* one iteration of the loop of print_dependency_tree, up to the call of
\* print_dependents and the first line that call prints
TreeNextRoot ==
    /\ pc = "tree"
    /\ frames = <<>>
    /\ roots # <<>>
    /\ LET node_name == Head(roots)
           new_dg == DfsSuccessors(G, node_name)
           header == Line(<<>>, "\n%s:", node_name, MarkerOf(node_name))
       IN /\ dg' = new_dg
          /\ preamble_list' = <<>>
          /\ IF Cardinality(DOMAIN new_dg) # 0
             THEN /\ frames' = <<Frame(new_dg[node_name], <<>>)>>
                  /\ result' = [lines |-> result.lines \o <<header, BarLine(<<>>)>>]
             ELSE /\ frames' = <<>>
                  /\ result' = [lines |-> Append(result.lines, header)]
    /\ roots' = Tail(roots)
    /\ UNCHANGED <<pc, G, yfiles, dep_errors, call>>

\* one iteration of the loop of the innermost print_dependents: the line of
\* imports[i]; then either KeyError from graph[imports[i]], or the append and
\* the call of print_dependents with the first line that call prints
TreeChild ==
    /\ pc = "tree"
    /\ frames # <<>>
    /\ LET top == frames[Len(frames)]
           n == Len(top.imports)
       IN /\ top.i < n
          /\ LET child == top.imports[top.i + 1]
                 line == Line(top.preamble, "  +--> %s", child, MarkerOf(child))
             IN IF child \in DOMAIN dg
                THEN /\ preamble_list' = Append(preamble_list, Segment(top.i, n))
                     /\ frames' = Append(frames, Frame(dg[child], preamble_list'))
                     /\ result' = [lines |-> result.lines \o <<line, BarLine(preamble_list')>>]
                ELSE /\ frames' = [frames EXCEPT ![Len(frames)].i = @ + 1]
                     /\ result' = [lines |-> Append(result.lines, line)]
                     /\ UNCHANGED preamble_list
    /\ UNCHANGED <<pc, G, yfiles, dep_errors, call, roots, dg>>

\* the loop of the innermost print_dependents has ended and the call returns;
\* its caller pops preamble_list, prints the bar unless the child was its last
\* and goes on to its next child
TreeReturn ==
    /\ pc = "tree"
    /\ frames # <<>>
    /\ frames[Len(frames)].i = Len(frames[Len(frames)].imports)
    /\ LET callers == SubSeq(frames, 1, Len(frames) - 1)
       IN IF callers = <<>>
          THEN /\ frames' = <<>>
               /\ UNCHANGED <<preamble_list, result>>
          ELSE LET caller == callers[Len(callers)]
               IN /\ preamble_list' = SubSeq(preamble_list, 1, Len(preamble_list) - 1)
                  /\ result' = IF caller.i < Len(caller.imports) - 1
                               THEN [lines |-> Append(result.lines, BarLine(caller.preamble))]
                               ELSE result
                  /\ frames' = [callers EXCEPT ![Len(callers)].i = @ + 1]
    /\ UNCHANGED <<pc, G, yfiles, dep_errors, call, roots, dg>>

\* the loop of print_dependency_tree has ended: the call returns
TreeDone ==
    /\ pc = "tree"
    /\ frames = <<>>
    /\ roots = <<>>
    /\ pc' = "done"
    /\ dg' = EmptyDict
    /\ preamble_list' = <<>>
    /\ UNCHANGED <<G, yfiles, dep_errors, call, result, roots, frames>>

NextQuery ==
    \/ CallPrintImpactingModules
    \/ CallPrintImpactedModules
    \/ CallReturnDependencyTreeAsJson
    \/ CallGetSubgraphForNode
    \/ CallMainSubGraph
    \/ CallPruneStandaloneNodes
    \/ CallPrintDependencyTree
    \/ CallPrintDependencyTreeSingle
    \/ TreeNextRoot
    \/ TreeChild
    \/ TreeReturn
    \/ TreeDone

SpecQuery == InitDone /\ [][NextQuery]_vars

\* the calls of print_dependency_tree alone
NextTree ==
    \/ CallPrintDependencyTree
    \/ CallPrintDependencyTreeSingle
    \/ TreeNextRoot
    \/ TreeChild
    \/ TreeReturn
    \/ TreeDone

\* the files init() was given, for the trees: a fourth module name, so that
\* a module with two imports can have an import that has an import of its own
TreeNames == Names \cup {<<"b", "a">>}

TreeCorpusScans ==
    [name : TreeNames, mod_type : {TYPE_MOD},
     imports : SeqsUpTo(TreeNames, MaxImports),
     revisions : {<<>>}]

TreeCorpora ==
    {c \in SeqsUpTo([scan : TreeCorpusScans, tag : {RFC_TAG}], MaxFiles) :
        \A i, j \in 1..Len(c) : i # j => c[i].scan.name # c[j].scan.name}

\* init() has returned
InitDoneTree ==
    /\ pc = "done"
    /\ yfiles \in TreeCorpora
    /\ G = InitResult(yfiles).g
    /\ dep_errors = InitResult(yfiles).errs
    /\ call = NoCall
    /\ result = <<>>
    /\ roots = <<>>
    /\ dg = EmptyDict
    /\ frames = <<>>
    /\ preamble_list = <<>>

SpecTree == InitDoneTree /\ [][NextTree]_vars

\* ================================================================ claims
\* the scan and the tag of the file ingested last
LastScan == yfiles[Len(yfiles)].scan
LastTag == yfiles[Len(yfiles)].tag

\* the positions in yfiles of the scans of module n
ScansOf(n) == {i \in 1..Len(yfiles) : yfiles[i].scan.name = n}

\* the lexicographically greatest non-null revision of two, null if both are
MaxNonNull(r1, r2) ==
    IF r1 = None THEN r2
    ELSE IF r2 = None THEN r1
    ELSE IF StrGT(r2, r1) THEN r2 ELSE r1

\* the condition under which the documentation has a node replaced
MustReplace(er, nr) ==
    \/ er = None /\ nr # None
    \/ er # None /\ nr # None /\ StrGT(nr, er)

\* C1: after exactly two scans of the same module name have been ingested,
\* in either order, the revision stored on the node is the lexicographically
\* greatest non-null revision of the two (null only if neither had one).
C1_StoredRevisionIsGreatest ==
    \A n \in Names : \A i, j \in ScansOf(n) :
        (i < j /\ ScansOf(n) = {i, j}) =>
            G.node[n].revision =
                MaxNonNull(ScanRev(yfiles[i].scan), ScanRev(yfiles[j].scan))

\* C2: when a scan is ingested for a name that has a node, and the stored
\* revision is null and the new one is not, or both are non-null and the new
\* one is strictly greater, then afterwards the node's type, tag, imports and
\* revision are exactly those of the new scan.
C2_ReplacedAsAWhole ==
    [][(/\ Len(yfiles') = Len(yfiles) + 1
        /\ HasNode(G, LastScan'.name)
        /\ MustReplace(G.node[LastScan'.name].revision, ScanRev(LastScan')))
       => Attrs(G'.node[LastScan'.name]) = ScanAttr(LastScan', LastTag')]_vars

\* C3: when a scan is ingested for a name that has a node, and the new
\* revision is null, or equal to or smaller than a non-null stored revision
\* (or both are null), the node's type, tag, imports and revision stay as
\* they were, and no other node and no edge changes.
C3_KeepCase(er, nr) ==
    \/ nr = None
    \/ er # None /\ nr # None /\ ~StrGT(nr, er)

C3_OlderScanChangesNothing ==
    [][(/\ Len(yfiles') = Len(yfiles) + 1
        /\ HasNode(G, LastScan'.name)
        /\ C3_KeepCase(G.node[LastScan'.name].revision, ScanRev(LastScan')))
       => /\ G'.order = G.order
          /\ G'.adj = G.adj
          /\ DOMAIN G'.node = DOMAIN G.node
          /\ Attrs(G'.node[LastScan'.name]) = Attrs(G.node[LastScan'.name])
          /\ \A m \in DOMAIN G.node \ {LastScan'.name} : G'.node[m] = G.node[m]]_vars

\* two scans of one module, the second older and with other attributes, and
\* the node still holds the attributes of the first
C3_Witness ==
    /\ Len(yfiles) = 2
    /\ yfiles[1].scan.name = yfiles[2].scan.name
    /\ ScanRev(yfiles[1].scan) = <<"2">>
    /\ ScanRev(yfiles[2].scan) = <<"1", "2">>
    /\ yfiles[1].scan.imports # yfiles[2].scan.imports
    /\ yfiles[1].tag # yfiles[2].tag
    /\ Attrs(G.node[yfiles[1].scan.name]) = ScanAttr(yfiles[1].scan, yfiles[1].tag)

ImportsOf(g, n) == SeqToSet(g.node[n].imports)
SuccessorsOf(g, n) == SeqToSet(g.adj[n])
NoDuplicates(s) == Cardinality(SeqToSet(s)) = Len(s)

\* C4: after init completes, for all nodes A and B the edge A->B is in G if
\* and only if B occurs in the stored imports of A; an import named twice
\* gives one edge, and only nodes have edges.
C4_EdgesAreImports ==
    pc = "done" =>
        /\ DOMAIN G.adj = DOMAIN G.node
        /\ \A a \in DOMAIN G.node :
            /\ NoDuplicates(G.adj[a])
            /\ \A b \in Names :
                 b \in SuccessorsOf(G, a) <=> (b \in ImportsOf(G, a) /\ HasNode(G, b))

\* init is complete; one node imports itself, another names the same
\* unscanned module twice and has the one edge to it
C4_Witness ==
    /\ pc = "done"
    /\ \E a, b \in DOMAIN G.node :
        /\ a # b
        /\ G.node[a].imports = <<a>>
        /\ G.adj[a] = <<a>>
        /\ \E c \in DOMAIN G.node :
            /\ G.node[b].imports = <<c, c>>
            /\ G.adj[b] = <<c>>
            /\ G.node[c].tag = UNKNOWN_TAG

\* the names that occur in some node's imports and are not nodes
Unresolved(g) ==
    {imp \in UNION {ImportsOf(g, n) : n \in DOMAIN g.node} : ~HasNode(g, imp)}

\* C5: get_unknown_modules, run after the scan batches, adds a node tagged
\* 'unknown' with empty imports and null revision for every name that occurs
\* in some node's imports and is not a node, and for no other name; the nodes
\* that existed keep their attributes.
C5_PlaceholdersForUnresolved ==
    [][(pc = "unknown" /\ pc' = "deps")
       => /\ DOMAIN G'.node = DOMAIN G.node \cup Unresolved(G)
          /\ \A n \in Unresolved(G) :
               /\ G'.node[n].tag = UNKNOWN_TAG
               /\ G'.node[n].imports = <<>>
               /\ G'.node[n].revision = None
          /\ \A n \in DOMAIN G.node : G'.node[n] = G.node[n]]_vars

\* get_unknown_modules has run on two scanned modules, one importing the
\* other and an unscanned one: a single placeholder was added
C5_Witness ==
    /\ pc = "deps"
    /\ \E a, b, c \in DOMAIN G.node :
        /\ G.node[a].tag = RFC_TAG
        /\ G.node[b].tag = DRAFT_TAG
        /\ G.node[c].tag = UNKNOWN_TAG
        /\ G.node[a].imports = <<b, c>>
        /\ G.node[b].imports # <<>>

NoEdges(g) == \A n \in DOMAIN g.adj : g.adj[n] = <<>>
AllImportsAreNodes(g) == \A n \in DOMAIN g.node : ImportsOf(g, n) \subseteq DOMAIN g.node

\* C6: init scans the RFC batch, then the draft batch, then runs
\* get_unknown_modules, then get_module_dependencies: G has no edge before
\* get_unknown_modules has finished, every import is a node when
\* get_module_dependencies runs, and it reports no unknown import.
C6_UnknownBeforeDependencies ==
    /\ pc \in {"rfc", "draft", "unknown"} => NoEdges(G)
    /\ pc = "rfc" => \A i \in 1..Len(yfiles) : yfiles[i].tag = RFC_TAG
    /\ \A i, j \in 1..Len(yfiles) :
         (i < j /\ yfiles[i].tag = DRAFT_TAG) => yfiles[j].tag = DRAFT_TAG
    /\ pc \in {"deps", "again"} => AllImportsAreNodes(G)
    /\ pc = "done" => dep_errors = <<>>

\* init is complete; a scanned module imports an unscanned one and the edge
\* to the placeholder is there, no error was reported
C6_Witness ==
    /\ pc = "done"
    /\ dep_errors = <<>>
    /\ \E a, c \in DOMAIN G.node :
        /\ G.node[a].tag = DRAFT_TAG
        /\ G.node[c].tag = UNKNOWN_TAG
        /\ c \in SuccessorsOf(G, a)

\* C10: a second call of get_unknown_modules directly after the first leaves
\* the node set and every node's attributes as the first call left them.
C10_GetUnknownModulesIdempotent ==
    [][(pc = "deps" /\ pc' = "again") => G' = G]_vars

\* get_unknown_modules has run twice; a module names the same unscanned
\* module twice, another module names it too
C10_Witness ==
    /\ pc = "again"
    /\ \E a, b, c \in DOMAIN G.node :
        /\ a # c
        /\ G.node[a].imports = <<b, b>>
        /\ G.node[c].imports = <<a, b>>
        /\ G.node[b].tag = UNKNOWN_TAG

\* there is a directed path of one or more edges from a to c
PathExists(g, a, c) ==
    \E p \in SeqsUpTo(DOMAIN g.node, Cardinality(DOMAIN g.node) + 1) :
        /\ Len(p) >= 2
        /\ p[1] = a
        /\ p[Len(p)] = c
        /\ \A i \in 1..(Len(p) - 1) : p[i + 1] \in SeqToSet(g.adj[p[i]])

PathTargets(g, a) == {c \in DOMAIN g.node : PathExists(g, a, c)}
PathSources(g, b) == {c \in DOMAIN g.node : PathExists(g, c, b)}

\* the nodes a listing is asked for: all, or the single node if it is one
AskedFor(single_node) ==
    IF single_node = None THEN DOMAIN G.node ELSE {single_node} \cap DOMAIN G.node

\* what print_impacted_modules listed for b: nothing when b has no entry
ListedImpacted(b) ==
    IF b \in DOMAIN result.impacted_modules THEN result.impacted_modules[b] ELSE {}

\* C7 as claimed: the set listed by print_impacting_modules for A is the set
\* of nodes C with a path of one or more edges A -> ... -> C, A itself
\* included when a cycle or self-import leads back to A; the set listed by
\* print_impacted_modules for B is the set of nodes with such a path to B.
C7_ListingsArePathSets ==
    /\ call.op = "impacting" =>
        /\ DOMAIN result.impacting_modules = AskedFor(call.single_node)
        /\ \A a \in AskedFor(call.single_node) :
             result.impacting_modules[a] = PathTargets(G, a)
    /\ call.op = "impacted" =>
        \A b \in AskedFor(call.single_node) : ListedImpacted(b) = PathSources(G, b)

\* C7, amended: the set listed by print_impacting_modules for A is the set
\* of nodes C other than A with a path of one or more edges A -> ... -> C,
\* and the set listed by print_impacted_modules for B is the set of nodes
\* other than B with such a path to B; a node is never listed for itself.
C7_ListingsArePathSetsWithoutSelf ==
    /\ call.op = "impacting" =>
        /\ DOMAIN result.impacting_modules = AskedFor(call.single_node)
        /\ \A a \in AskedFor(call.single_node) :
             result.impacting_modules[a] = PathTargets(G, a) \ {a}
    /\ call.op = "impacted" =>
        \A b \in AskedFor(call.single_node) : ListedImpacted(b) = PathSources(G, b) \ {b}

\* print_impacting_modules has listed every node; a imports b, b imports
\* itself and c: c is listed for a, b is not listed for b
C7_Witness ==
    /\ call.op = "impacting"
    /\ call.single_node = None
    /\ \E a, b, c \in DOMAIN G.node :
        /\ a # b /\ b # c /\ a # c
        /\ G.adj[a] = <<b>>
        /\ G.adj[b] = <<b, c>>
        /\ result.impacting_modules[a] = {b, c}
        /\ result.impacting_modules[b] = {c}

\* p occurs in n: n is some prefix, then p, then some suffix
Occurs(p, n) ==
    \E k \in 0..(Len(n) - Len(p)) : \A i \in 1..Len(p) : n[k + i] = p[i]

\* the exclusion rule with empty strings in ignore_partial having no effect
Excluded(n, ignore_exact, ignore_partial) ==
    \/ n \in SeqToSet(ignore_exact)
    \/ \E p \in SeqToSet(ignore_partial) : p # <<>> /\ Occurs(p, n)

\* the exclusion rule as claimed: any string of ignore_partial, the empty
\* one included, that is a substring of the name drops the node
ExcludedAsClaimed(n, ignore_exact, ignore_partial) ==
    \/ n \in SeqToSet(ignore_exact)
    \/ \E p \in SeqToSet(ignore_partial) : Occurs(p, n)

\* the graph the last call of return_dependency_tree_as_json read
UsedGraph == GraphOrG(call.graph, G)
OutNames == [i \in 1..Len(result.nodes) |-> result.nodes[i].name]
IsKept(n) == ~Excluded(n, call.ignore_exact, call.ignore_partial)
IsKeptEdge(e) == IsKept(e[1]) /\ IsKept(e[2])
KeptEdges == SelectSeq(EdgesIter(UsedGraph, UsedGraph.order), IsKeptEdge)

\* C8: in the result of return_dependency_tree_as_json the non-excluded
\* nodes occupy the positions 0..len-1 of 'nodes' in iteration order, no name
\* twice; every link's source and target is a position in [0, len) and the
\* two positions of a link are those of the endpoints of its edge; no index
\* lookup fails.
C8_IndicesArePositions ==
    call.op = "json" =>
        /\ result.error = "none"
        /\ OutNames = SelectSeq(UsedGraph.order, IsKept)
        /\ NoDuplicates(OutNames)
        /\ Len(result.links) = Len(KeptEdges)
        /\ \A i \in 1..Len(result.links) :
            /\ result.links[i].source \in 0..(Len(result.nodes) - 1)
            /\ result.links[i].target \in 0..(Len(result.nodes) - 1)
            /\ {OutNames[result.links[i].source + 1], OutNames[result.links[i].target + 1]}
                 = {KeptEdges[i][1], KeptEdges[i][2]}

\* an export of a graph of three nodes with the first one excluded by name:
\* the two others are at positions 0 and 1 and a link joins them
C8_Witness ==
    /\ call.op = "json"
    /\ Len(UsedGraph.order) = 3
    /\ call.ignore_exact = <<UsedGraph.order[1]>>
    /\ OutNames = <<UsedGraph.order[2], UsedGraph.order[3]>>
    /\ \E i \in 1..Len(result.links) :
         result.links[i].source = 1 /\ result.links[i].target = 0

LinkEnds == {{OutNames[result.links[i].source + 1], OutNames[result.links[i].target + 1]}
             : i \in 1..Len(result.links)}

EdgeSet(g) == {e \in (DOMAIN g.node) \X (DOMAIN g.node) : e[2] \in SeqToSet(g.adj[e[1]])}

\* C9 as claimed: a node is dropped if and only if its name is in
\* ignore_exact or any string in ignore_partial, the empty string included,
\* is a substring of its name; an edge is dropped if and only if one of its
\* endpoints is dropped; everything else is in the output.
C9_DropsAsClaimed ==
    call.op = "json" =>
        LET kept == {n \in DOMAIN UsedGraph.node :
                       ~ExcludedAsClaimed(n, call.ignore_exact, call.ignore_partial)}
            keptEdges == {e \in EdgeSet(UsedGraph) : e[1] \in kept /\ e[2] \in kept}
        IN /\ result.error = "none"
           /\ SeqToSet(OutNames) = kept
           /\ Len(result.links) = Cardinality(keptEdges)
           /\ LinkEnds = {{e[1], e[2]} : e \in keptEdges}

\* C9, amended: a node is dropped if and only if its name is in ignore_exact
\* or a non-empty string in ignore_partial is a substring of its name (an
\* empty string in ignore_partial drops nothing); an edge is dropped if and
\* only if one of its endpoints is dropped; everything else is in the output.
C9_DropsByNonEmptyPartial ==
    call.op = "json" =>
        LET kept == {n \in DOMAIN UsedGraph.node : IsKept(n)}
            keptEdges == {e \in EdgeSet(UsedGraph) : e[1] \in kept /\ e[2] \in kept}
        IN /\ result.error = "none"
           /\ SeqToSet(OutNames) = kept
           /\ Len(result.links) = Cardinality(keptEdges)
           /\ LinkEnds = {{e[1], e[2]} : e \in keptEdges}

\* an export with ignore_partial = ["b"] of a graph with the nodes "a", "ab"
\* and "b": only "a" and its edge to itself are in the output
C9_Witness ==
    /\ call.op = "json"
    /\ call.ignore_partial = << <<"b">> >>
    /\ call.ignore_exact = <<>>
    /\ DOMAIN UsedGraph.node = Names
    /\ <<"a">> \in SeqToSet(UsedGraph.adj[<<"a">>])
    /\ Cardinality(EdgeSet(UsedGraph)) >= 3
    /\ OutNames = << <<"a">> >>
    /\ Len(result.links) = 1

\* the name a query was restricted to is not a node of G
AbsentNode(n) == n # None /\ n \notin DOMAIN G.node

\* C11 as claimed: for a name that is not a node of G, the impact listings
\* restricted to that name, get_subgraph_for_node and the per-node dependency
\* tree yield an empty result; no error or exception reaches the caller.
C11_AbsentNodeYieldsEmpty ==
    /\ call.op = "impacting" /\ AbsentNode(call.single_node) =>
        DOMAIN result.impacting_modules = {}
    /\ call.op = "impacted" /\ AbsentNode(call.single_node) =>
        DOMAIN result.impacted_modules = {}
    /\ call.op = "tree_single" /\ AbsentNode(call.single_node) =>
        Len(result.lines) = 1
    /\ call.op = "subgraph" /\ AbsentNode(call.node_name) =>
        /\ result.error = "none"
        /\ result.graph.order = <<>>

\* C11, amended: for a name that is not a node of G, the impact listings
\* restricted to that name list nothing and the per-node dependency tree
\* prints its title and nothing else; get_subgraph_for_node returns no graph:
\* the NetworkXError of nx.ancestors reaches its caller, and the caller in
\* __main__ of src/symd.py catches it and prints its message.
C11_AbsentNodeEmptyOrNetworkXError ==
    /\ call.op = "impacting" /\ AbsentNode(call.single_node) =>
        DOMAIN result.impacting_modules = {}
    /\ call.op = "impacted" /\ AbsentNode(call.single_node) =>
        DOMAIN result.impacted_modules = {}
    /\ call.op = "tree_single" /\ AbsentNode(call.single_node) =>
        Len(result.lines) = 1
    /\ call.op = "subgraph" /\ AbsentNode(call.node_name) =>
        /\ result.error = "NetworkXError"
        /\ result.graph = NoGraph
    /\ call.op = "main_sub_graph" /\ AbsentNode(call.node) =>
        /\ result.raised = "none"
        /\ result.printed = "    The node %s is not in the graph."

\* get_subgraph_for_node has been called with a name that is not among the
\* nodes of a graph with nodes
C11_Witness ==
    /\ call.op = "subgraph"
    /\ G.order # <<>>
    /\ AbsentNode(call.node_name)
    /\ result.error = "NetworkXError"

\* C12: once init has returned, no query operation (print_impacting_modules,
\* print_impacted_modules, get_subgraph_for_node, print_dependency_tree,
\* return_dependency_tree_as_json, prune_standalone_nodes), called any number
\* of times in any order, changes G's node set, any node's attributes or
\* G's edge set; prune_standalone_nodes removes nodes only from its copy.
C12_QueriesLeaveG == [][(pc = "done" \/ pc = "tree") => (G' = G)]_vars

\* prune_standalone_nodes has returned a graph that has nodes, but fewer than
\* G, and G is what init() left
C12_Witness ==
    /\ call.op = "prune"
    /\ Len(result.graph.order) < Len(G.order)
    /\ Len(result.graph.order) > 0
    /\ G = InitResult(yfiles).g

\* the lines of modules: a tree's first line, or the line of an import
IsRootLine(l) == l.text = "\n%s:"
IsChildLine(l) == l.text = "  +--> %s"

\* the position in the output of the first line of the tree being rendered, 0
\* when no tree has begun
LastRootLine ==
    IF \E i \in 1..Len(result.lines) : IsRootLine(result.lines[i])
    THEN CHOOSE i \in 1..Len(result.lines) :
            /\ IsRootLine(result.lines[i])
            /\ \A j \in (i + 1)..Len(result.lines) : ~IsRootLine(result.lines[j])
    ELSE 0

\* the lines of the tree being rendered
TreeLines ==
    IF LastRootLine = 0 THEN <<>>
    ELSE SubSeq(result.lines, LastRootLine, Len(result.lines))

\* the names on these lines: the root, then the imports printed so far
RenderedNames ==
    LET named == SelectSeq(TreeLines, LAMBDA l : IsRootLine(l) \/ IsChildLine(l))
    IN [k \in 1..Len(named) |-> named[k].name]

\* an upper bound of the number of steps print_dependency_tree has still to
\* take: for every node its loop has still to take, one step and then at
\* most one step down to and one step up from every node; for the tree being
\* rendered, these two steps for every node not yet on a line, and one step
\* up from every call of print_dependents in progress; one step to return
StepsLeft ==
    (IF pc = "tree" THEN 1 ELSE 0)
    + Len(roots) * (2 * Cardinality(DOMAIN G.node) + 2)
    + 2 * (Cardinality(DOMAIN G.node) + 1 - Cardinality(SeqToSet(RenderedNames)))
    + Len(frames)

\* the innermost print_dependents is at a child or at the end of its loop
AtChildOrEnd ==
    frames # <<>> => frames[Len(frames)].i <= Len(frames[Len(frames)].imports)

\* C13: print_dependency_tree and its recursive helper print_dependents
\* terminate on every finite graph, import cycles and self-imports included:
\* the rendering of a tree never comes to a node twice, so that every step
\* lowers the number of steps left, which is never negative, and the
\* innermost call can always take its next step.
C13_TreeTerminates ==
    [][pc = "tree" =>
        /\ NoDuplicates(RenderedNames')
        /\ StepsLeft' < StepsLeft
        /\ StepsLeft' >= 0
        /\ AtChildOrEnd']_vars

\* print_dependency_tree() has returned, for a graph in which a imports
\* itself and b, and b imports a: two trees of one import each were printed
C13_Witness ==
    /\ pc = "done"
    /\ call.op = "tree"
    /\ \E a, b \in DOMAIN G.node :
        /\ a # b
        /\ G.adj[a] = <<a, b>>
        /\ G.adj[b] = <<a>>
        /\ Len(SelectSeq(result.lines, IsRootLine)) = 2
        /\ Len(SelectSeq(result.lines, IsChildLine)) = 2


\* the nodes with a path of one or more edges to or from another node
Connected(g) ==
    {n \in DOMAIN g.node : (PathTargets(g, n) \cup PathSources(g, n)) \ {n} # {}}

ParentIn(d, n) == CHOOSE p \in DOMAIN d : n \in SeqToSet(d[p])
IsLastChild(d, n) == d[ParentIn(d, n)][Len(d[ParentIn(d, n)])] = n

\* one segment for every proper ancestor of n below the root, from the top
RECURSIVE SegmentsFor(_, _, _)
SegmentsFor(d, root, n) ==
    IF ParentIn(d, n) = root THEN <<>>
    ELSE Append(SegmentsFor(d, root, ParentIn(d, n)),
                IF IsLastChild(d, ParentIn(d, n)) THEN "      " ELSE "  |   ")

\* C15: in print_dependents the line printed for a child is prefixed by one
\* segment per proper ancestor of the child below the root, where the
\* segment is '  |   ' if that ancestor is not the last child of its parent
\* and six blanks if it is the last; and between two iterations of its loop
\* and when it returns, a call of print_dependents finds in preamble_list
\* the entries that were there when the call was entered.
C15_PreambleFollowsAncestors ==
    pc = "tree" =>
        /\ \A k \in 1..Len(TreeLines) :
              IsChildLine(TreeLines[k]) =>
                TreeLines[k].preamble = SegmentsFor(dg, TreeLines[1].name, TreeLines[k].name)
        /\ frames # <<>> => preamble_list = frames[Len(frames)].preamble
        /\ frames = <<>> => preamble_list = <<>>

\* the tree of a module with two imports, the first of which has an import:
\* that import was printed behind the bar segment, and the call of
\* print_dependents for the root is about to return with an empty list
C15_Witness ==
    /\ pc = "tree"
    /\ Len(frames) = 1
    /\ Len(frames[1].imports) = 2
    /\ frames[1].i = 2
    /\ preamble_list = <<>>
    /\ \E k \in 1..Len(TreeLines) :
        /\ IsChildLine(TreeLines[k])
        /\ TreeLines[k].preamble = <<"  |   ">>


\* depth-first search by recursion: the imports of p are taken in order, and
\* an import not seen before is recorded with p, then searched, before the
\* next import of p is taken
RECURSIVE Search(_, _, _, _)
Search(g, p, imports, st) ==
    IF imports = <<>> THEN st
    ELSE IF Head(imports) \in st.seen THEN Search(g, p, Tail(imports), st)
    ELSE Search(g, p, Tail(imports),
                Search(g, Head(imports), g.adj[Head(imports)],
                       [seen |-> st.seen \cup {Head(imports)},
                        found |-> st.found \cup {<<p, Head(imports)>>}]))

\* the pairs <<parent, node>>: the search from root first discovered node
\* from parent
FirstDiscovered(g, root) ==
    Search(g, root, g.adj[root], [seen |-> {root}, found |-> {}]).found

\* the lines of the tree being rendered that name a module
NamedLines == SelectSeq(TreeLines, LAMBDA l : IsRootLine(l) \/ IsChildLine(l))

\* how far a line is indented: the root is above its imports
Indent(l) == IF IsRootLine(l) THEN -1 ELSE Len(l.preamble)

\* the line under which the k-th named line is printed: the nearest line
\* above it that is indented by one segment less
LineAbove(k) ==
    CHOOSE j \in 1..(k - 1) :
        /\ Indent(NamedLines[j]) = Indent(NamedLines[k]) - 1
        /\ \A i \in (j + 1)..(k - 1) : Indent(NamedLines[i]) # Indent(NamedLines[k]) - 1

\* the pairs <<parent, node>> the printed tree shows
PrintedUnder ==
    {<<NamedLines[LineAbove(k)].name, NamedLines[k].name>> : k \in 2..Len(NamedLines)}

\* C16: in the tree print_dependency_tree renders for a root, every node
\* reachable from the root by one or more edges, other than the root, is
\* printed exactly once, under the parent from which the depth-first search
\* first discovered it; while the tree is being rendered no node is printed
\* twice.
C16_ReachableOnceUnderDiscoverer ==
    pc = "tree" /\ TreeLines # <<>> =>
        LET root == TreeLines[1].name
        IN /\ NoDuplicates(RenderedNames)
           /\ PrintedUnder \subseteq FirstDiscovered(G, root)
           /\ frames = <<>> =>
                /\ SeqToSet(RenderedNames) \ {root} = PathTargets(G, root) \ {root}
                /\ PrintedUnder = FirstDiscovered(G, root)

\* the complete tree of a module a on a cycle with b, where a imports b and
\* c, and b imports c and a: c is printed once, under b
C16_Witness ==
    /\ pc = "tree"
    /\ frames = <<>>
    /\ Len(NamedLines) = 3
    /\ \E a, b, c \in DOMAIN G.node :
        /\ a # b /\ b # c /\ a # c
        /\ G.adj[a] = <<b, c>>
        /\ G.adj[b] = <<c, a>>
        /\ TreeLines[1].name = a
        /\ PrintedUnder = {<<a, b>>, <<b, c>>}


\* C17: when return_dependency_tree_as_json is called with an explicit graph
\* argument, its output lists only nodes and edges of that graph; for an
\* explicitly supplied graph with no nodes the result has empty 'nodes' and
\* empty 'links', whatever G contains.
C17_ExplicitGraphOnly ==
    call.op = "json" /\ call.graph # NoGraph =>
        /\ result.error = "none"
        /\ SeqToSet(OutNames) \subseteq DOMAIN call.graph.node
        /\ LinkEnds \subseteq {{e[1], e[2]} : e \in EdgeSet(call.graph)}
        /\ call.graph.order = <<>> => result.nodes = <<>> /\ result.links = <<>>


\* the position of a name in the 'nodes' list of the output, from 0
PositionOf(n) == (CHOOSE i \in 1..Len(OutNames) : OutNames[i] = n) - 1

\* C18 as claimed: for every graph edge A->B (A imports B) that
\* return_dependency_tree_as_json keeps, the output contains exactly one
\* link, whose 'source' is the position of the importing module A and whose
\* 'target' is the position of the imported module B in the 'nodes' list,
\* with value 1.0.
C18_LinkFromImporter ==
    call.op = "json" =>
        /\ Len(result.links) = Len(KeptEdges)
        /\ NoDuplicates(KeptEdges)
        /\ \A i \in 1..Len(KeptEdges) :
            /\ result.links[i].source = PositionOf(KeptEdges[i][1])
            /\ result.links[i].target = PositionOf(KeptEdges[i][2])
            /\ result.links[i].value = 1

\* C18, amended: for every graph edge A->B (A imports B) that
\* return_dependency_tree_as_json keeps, the output contains exactly one
\* link, whose 'source' is the position of the imported module B and whose
\* 'target' is the position of the importing module A in the 'nodes' list,
\* with value 1.0.
C18_LinkFromImported ==
    call.op = "json" =>
        /\ Len(result.links) = Len(KeptEdges)
        /\ NoDuplicates(KeptEdges)
        /\ \A i \in 1..Len(KeptEdges) :
            /\ result.links[i].source = PositionOf(KeptEdges[i][2])
            /\ result.links[i].target = PositionOf(KeptEdges[i][1])
            /\ result.links[i].value = 1

\* an export of G where the first node imports the second and nothing else
\* is imported: the one link has source 1 and target 0
C18_Witness ==
    /\ call.op = "json"
    /\ call.graph = NoGraph
    /\ Len(G.order) >= 2
    /\ KeptEdges = << <<G.order[1], G.order[2]>> >>
    /\ result.links = <<[source |-> 1, target |-> 0, value |-> 1]>>


====
